---------------------------- MODULE Spec2Model ----------------------------
(***************************************************************************)
(* Model of deleter.go: a retention pruner.  main reads a configuration,   *)
(* lists the base directory and starts one pruneSingleCompanyDir task per  *)
(* company directory; each task walks its company's tree with              *)
(* filepath.Walk and removes every directory whose getCompareDate is       *)
(* before the company's delete time.                                       *)
(*                                                                         *)
(* Strings are sequences of one-character strings, so that strconv.ParseInt *)
(* and strings.Split are computed the way the library computes them.  An   *)
(* instant is a record [day, sec]: day counts days since 0001-01-01 UTC in *)
(* the proleptic Gregorian calendar (it may be negative), sec is the       *)
(* second of that UTC day.  Sub-second precision is not modelled: the code *)
(* only adds whole seconds and whole days.                                 *)
(***************************************************************************)
EXTENDS Integers, Sequences, FiniteSets, TLC

-----------------------------------------------------------------------------
(* strconv.ParseInt(s, 10, 0) as deleter.go uses it *)

DigitChars == {"0", "1", "2", "3", "4", "5", "6", "7", "8", "9"}

DigitVal(c) ==
    CASE c = "0" -> 0 [] c = "1" -> 1 [] c = "2" -> 2 [] c = "3" -> 3
      [] c = "4" -> 4 [] c = "5" -> 5 [] c = "6" -> 6 [] c = "7" -> 7
      [] c = "8" -> 8 [] c = "9" -> 9

RECURSIVE ParseUintVal(_)
ParseUintVal(s) ==
    IF Len(s) = 0 THEN 0
    ELSE 10 * ParseUintVal(SubSeq(s, 1, Len(s) - 1)) + DigitVal(s[Len(s)])

\* base 10: one or more decimal digits, nothing else (no underscores)
ParseUintOk(s) == Len(s) > 0 /\ \A i \in 1..Len(s) : s[i] \in DigitChars

\* ParseInt with its error dropped: what does not parse counts as 0
ParseIntErrorDropped(s) ==
    LET signed == Len(s) > 0 /\ s[1] \in {"+", "-"}
        neg    == Len(s) > 0 /\ s[1] = "-"
        body   == IF signed THEN Tail(s) ELSE s
    IN  IF ParseUintOk(body)
        THEN [ok |-> TRUE,
              val |-> IF neg THEN 0 - ParseUintVal(body) ELSE ParseUintVal(body)]
        ELSE [ok |-> TRUE, val |-> 0]

\* [ok, val]: ok = FALSE is a non-nil error.  An optional leading sign is
\* accepted.  Names in the model are short, so the range error of a value
\* that does not fit an int does not arise.
ParseInt(s) ==
    LET signed == Len(s) > 0 /\ s[1] \in {"+", "-"}
        neg    == Len(s) > 0 /\ s[1] = "-"
        body   == IF signed THEN Tail(s) ELSE s
    IN  IF ParseUintOk(body)
        THEN [ok |-> TRUE,
              val |-> IF neg THEN 0 - ParseUintVal(body) ELSE ParseUintVal(body)]
        ELSE [ok |-> FALSE, val |-> 0]

-----------------------------------------------------------------------------
(* package time: time.Date, Time.Add, Time.AddDate, Time.Before *)

SecondsPerHour == 60 * 60
SecondsPerDay == 24 * SecondsPerHour

IsLeap(y) == y % 4 = 0 /\ (y % 100 # 0 \/ y % 400 = 0)

\* days from 0001-01-01 to January 1 of year y
DaysBeforeYear(y) ==
    365 * (y - 1) + ((y - 1) \div 4) - ((y - 1) \div 100) + ((y - 1) \div 400)

\* daysBefore[m + 1]: days of a non-leap year before month m + 1 (m = 0..11)
DaysBefore == <<0, 31, 59, 90, 120, 151, 181, 212, 243, 273, 304, 334>>

Norm(t) == [day |-> t.day + (t.sec \div SecondsPerDay), sec |-> t.sec % SecondsPerDay]

\* Time.Add(k * time.Second)
Add(t, k) == Norm([day |-> t.day, sec |-> t.sec + k])

\* Time.Before
Before(a, b) == a.day < b.day \/ (a.day = b.day /\ a.sec < b.sec)

\* time.Date(year, month, day, hour, min, sec, 0, loc), loc a zone whose
\* offset east of UTC is off seconds.  Values outside their usual ranges are
\* normalised: month 0 is December of the year before, day 0 is the last day
\* of the month before.
Date(year, month, day, hour, min, sec, off) ==
    LET m0 == month - 1
        y1 == year + (m0 \div 12)
        m1 == m0 % 12
        min1 == min + (sec \div 60)
        sec1 == sec % 60
        hour1 == hour + (min1 \div 60)
        min2 == min1 % 60
        day1 == day + (hour1 \div 24)
        hour2 == hour1 % 24
        d == DaysBeforeYear(y1) + DaysBefore[m1 + 1]
             + (IF IsLeap(y1) /\ m1 + 1 >= 3 THEN 1 ELSE 0) + (day1 - 1)
    IN  Norm([day |-> d,
              sec |-> hour2 * SecondsPerHour + min2 * 60 + sec1 - off])

-----------------------------------------------------------------------------
(* getDatePiece and getCompareDate *)

\* getDatePiece: pathArray is 0-indexed in the code, 1-indexed here
getDatePiece(pathArray, baseLen, idx) ==
    LET r == ParseInt(pathArray[baseLen + idx + 1])
    IN  IF r.ok THEN r.val ELSE 0

\* getCompareDate(path, baseLen), with pathArray = strings.Split(path, "/"),
\* nowT the value time.Now() returns and off the offset of time.Local
getCompareDate(pathArray, baseLen, nowT, off) ==
    LET pathLen == Len(pathArray)
        year  == getDatePiece(pathArray, baseLen, 1)
        month == getDatePiece(pathArray, baseLen, 2)
        day   == getDatePiece(pathArray, baseLen, 3)
        hour  == getDatePiece(pathArray, baseLen, 4)
        min   == getDatePiece(pathArray, baseLen, 5)
    IN  IF pathLen < baseLen + 2 THEN nowT
        ELSE IF pathLen < baseLen + 3
             THEN Add(Date(year + 1, 0, 0, 0, 0, 0, off), -1)
        ELSE IF pathLen < baseLen + 4
             THEN Add(Date(year, month + 1, 0, 0, 0, 0, off), -1)
        ELSE IF pathLen < baseLen + 5
             THEN Add(Date(year, month, day + 1, 0, 0, 0, off), -1)
        ELSE IF pathLen < baseLen + 6
             THEN Add(Date(year, month, day, hour + 1, 0, 0, off), -1)
        ELSE Add(Date(year, month, day, hour, min + 1, 0, off), -1)

-----------------------------------------------------------------------------
(* strings.Split, filepath.Join, and the sorted directory listing *)

Sep == "/"

\* the first index of Sep in s, or 0
RECURSIVE IndexSep(_, _)
IndexSep(s, i) ==
    IF i > Len(s) THEN 0 ELSE IF s[i] = Sep THEN i ELSE IndexSep(s, i + 1)

\* strings.Split(s, string(os.PathSeparator))
RECURSIVE Split(_)
Split(s) ==
    LET i == IndexSep(s, 1)
    IN  IF i = 0 THEN <<s>>
        ELSE <<SubSeq(s, 1, i - 1)>> \o Split(SubSeq(s, i + 1, Len(s)))

\* filepath.Join(dir, name) for a clean dir and a plain name
Join(dir, name) == dir \o <<Sep>> \o name

\* the characters of the model's names, in byte order
Alphabet ==
    <<"+", "-", ".", "0", "1", "2", "3", "4", "5", "6", "7", "8", "9",
      "a", "b", "c", "d", "e", "f", "g", "h", "i", "j", "k", "l", "m",
      "n", "o", "p", "q", "r", "s", "t", "u", "v", "w", "x", "y", "z">>

Code(c) == CHOOSE i \in 1..Len(Alphabet) : Alphabet[i] = c

RECURSIVE LexLess(_, _)
LexLess(a, b) ==
    IF Len(b) = 0 THEN FALSE
    ELSE IF Len(a) = 0 THEN TRUE
    ELSE IF a[1] = b[1] THEN LexLess(Tail(a), Tail(b))
    ELSE Code(a[1]) < Code(b[1])

\* the elements of a finite set of names as a sorted sequence
RECURSIVE SortNames(_)
SortNames(S) ==
    IF S = {} THEN <<>>
    ELSE LET m == CHOOSE n \in S : \A o \in S \ {n} : LexLess(n, o)
         IN  <<m>> \o SortNames(S \ {m})

\* p is strictly below dir
IsUnder(p, dir) ==
    /\ Len(p) > Len(dir) + 1
    /\ SubSeq(p, 1, Len(dir) + 1) = dir \o <<Sep>>

\* the name of p inside dir
NameIn(p, dir) == SubSeq(p, Len(dir) + 2, Len(p))

\* the names of the entries of directory dir on the disk disk
ChildNames(disk, dir) ==
    {NameIn(e.path, dir) : e \in {f \in disk : /\ IsUnder(f.path, dir)
                                              /\ IndexSep(NameIn(f.path, dir), 1) = 0}}

\* readDirNames(dir) of filepath.Walk: the names, sorted
readDirNames(disk, dir) == SortNames(ChildNames(disk, dir))

\* os.RemoveAll(path) that succeeds: path and everything below it is gone
RemoveAll(disk, path) == {f \in disk : f.path # path /\ ~IsUnder(f.path, path)}

-----------------------------------------------------------------------------
(* The inputs of a run: the disk, the configuration file, the clock *)

\* how many times the clock advances during a run
MaxTicks == 1

sData == <<"d", "a", "t", "a">>
sSrv == <<"s", "r", "v">>
sAcme == <<"a", "c", "m", "e">>
sGlobex == <<"g", "l", "o", "b", "e", "x">>
sUnknownco == <<"u", "n", "k", "n", "o", "w", "n", "c", "o">>
sBadco == <<"b", "a", "d", "c", "o">>
sDefault == <<"d", "e", "f", "a", "u", "l", "t">>
sReadme == <<"r", "e", "a", "d", "m", "e">>
sLog == <<"l", "o", "g", ".", "t", "x", "t">>
sDev == <<"d", "e", "v">>
sLocked == <<"l", "o", "c", "k", "e", "d">>
sLogs == <<"l", "o", "g", "s">>
sNegco == <<"n", "e", "g", "c", "o">>
sAbc == <<"a", "b", "c">>
s2019 == <<"2", "0", "1", "9">>
s2023 == <<"2", "0", "2", "3">>
s2024 == <<"2", "0", "2", "4">>
s02 == <<"0", "2">>
s03 == <<"0", "3">>
s08 == <<"0", "8">>
s10 == <<"1", "0">>
s12 == <<"1", "2">>
s14 == <<"1", "4">>
s7 == <<"7">>
s30 == <<"3", "0">>
s100 == <<"1", "0", "0">>
sMinus5 == <<"-", "5">>

RECURSIVE JoinAll(_, _)
JoinAll(base, segs) ==
    IF segs = <<>> THEN base ELSE JoinAll(Join(base, Head(segs)), Tail(segs))

DirAt(base, segs) == [path |-> JoinAll(base, segs), dir |-> TRUE]
FileAt(base, segs) == [path |-> JoinAll(base, segs), dir |-> FALSE]

\* a company tree laid out <company>/<year>/<month>/<day>, with a stray file
AcmeTree(base) ==
    { DirAt(base, <<sAcme>>),
      DirAt(base, <<sAcme, s2023>>),
      FileAt(base, <<sAcme, s2023, sLog>>),
      DirAt(base, <<sAcme, s2024>>),
      DirAt(base, <<sAcme, s2024, s03>>),
      DirAt(base, <<sAcme, s2024, s03, s10>>),
      DirAt(base, <<sAcme, s2024, s03, s14>>),
      FileAt(base, <<sAcme, s2024, s03, sLog>>) }

BadcoTree(base) ==
    { DirAt(base, <<sBadco>>), DirAt(base, <<sBadco, s2019>>) }

\* company trees with one more directory level above the year
GlobexTree(base) ==
    { DirAt(base, <<sGlobex>>),
      DirAt(base, <<sGlobex, sDev>>),
      DirAt(base, <<sGlobex, sDev, s2023>>),
      DirAt(base, <<sGlobex, sDev, s2023, s12>>),
      DirAt(base, <<sGlobex, sLocked>>),
      DirAt(base, <<sGlobex, sLocked, s2019>>),
      DirAt(base, <<sGlobex, sLogs>>) }

UnknowncoTree(base) ==
    { DirAt(base, <<sUnknownco>>),
      DirAt(base, <<sUnknownco, sDev>>),
      DirAt(base, <<sUnknownco, sDev, s2019>>),
      DirAt(base, <<sUnknownco, sDev, s2024>>),
      DirAt(base, <<sUnknownco, sDev, s2024, s03>>),
      DirAt(base, <<sUnknownco, sDev, s2024, s03, s08>>) }

\* a company that has no dated directory yet
NegcoTree(base) == { DirAt(base, <<sNegco>>) }

\* resources/config.json, parsed
TheConfig ==
    [DefaultConfig |-> [Id |-> sDefault, Name |-> sDefault, Retention |-> s7],
     CompanyConfigs |->
        << [Id |-> sAcme, Name |-> sAcme, Retention |-> s30],
           [Id |-> sGlobex, Name |-> sGlobex, Retention |-> s100],
           [Id |-> sBadco, Name |-> sBadco, Retention |-> sAbc],
           [Id |-> sNegco, Name |-> sNegco, Retention |-> sMinus5] >>]

\* a config.json that lists a company whose companyId is "default"
ConfigListingDefault ==
    [TheConfig EXCEPT !.CompanyConfigs =
        Append(@, [Id |-> sDefault, Name |-> sDefault, Retention |-> s100])]

AbsData == <<Sep>> \o sData

\* 2024-03-15T00:00:00Z
NowA == Date(2024, 3, 15, 0, 0, 0, 0)
\* 2024-03-15T22:59:59Z
NowB == Date(2024, 3, 15, 22, 59, 59, 0)

\* base: the -baseDir flag; baseOk: whether ioutil.ReadDir(baseDir) succeeds;
\* tz: the offset of time.Local; cfgFile: the state of resources/config.json;
\* unreadable: directories whose listing fails; undeletable: directories
\* whose os.RemoveAll fails
World(base, baseOk, tz, t, cfgFile, disk, unreadable, undeletable) ==
    [base |-> base, baseOk |-> baseOk, tz |-> tz, now |-> t, cfgFile |-> cfgFile,
     config |-> TheConfig, disk |-> disk,
     unreadable |-> unreadable, undeletable |-> undeletable]

WithConfig(w, config) == [w EXCEPT !.config = config]

Worlds ==
    { World(AbsData, TRUE, 0, NowA, "ok",
            AcmeTree(AbsData) \cup BadcoTree(AbsData) \cup {FileAt(AbsData, <<sReadme>>)},
            {}, {}),
      World(sSrv, TRUE, SecondsPerHour, NowB, "ok",
            GlobexTree(sSrv) \cup UnknowncoTree(sSrv),
            {JoinAll(sSrv, <<sGlobex, sLocked>>)},
            {JoinAll(sSrv, <<sUnknownco, sDev, s2019>>)}),
      World(AbsData, TRUE, 0, NowA, "unreadable", AcmeTree(AbsData), {}, {}),
      World(AbsData, TRUE, 0, NowA, "unparseable",
            AcmeTree(AbsData) \cup BadcoTree(AbsData), {}, {}),
      World(AbsData, FALSE, 0, NowA, "ok", AcmeTree(AbsData), {}, {}),
      World(AbsData, TRUE, 0, NowA, "ok",
            NegcoTree(AbsData) \cup BadcoTree(AbsData), {}, {}),
      WithConfig(World(sSrv, TRUE, 0, NowA, "ok",
                       {DirAt(sSrv, <<sUnknownco>>), DirAt(sSrv, <<sUnknownco, sDev>>)},
                       {}, {}),
                 ConfigListingDefault) }

-----------------------------------------------------------------------------
(* State *)

VARIABLES
    world,        \* the inputs of the run (constant during a run)
    fs,           \* the entries on disk: records [path, dir]
    now,          \* what time.Now() returns
    ticks,        \* how often the clock has advanced
    mainPc,       \* where main is
    configMap,    \* main's configMap
    currTime,     \* main's currTime
    companyDirs,  \* the entries of main's loop not yet handled
    wg,           \* the counter of the sync.WaitGroup
    task,         \* the pruneSingleCompanyDir goroutines, by directory name
    visits,       \* per task, the calls of the walk callback, in order
    lost,         \* what was on disk below a directory when it was removed
    query,        \* the arguments of a single getCompareDate call
    result        \* its result

vars == <<world, fs, now, ticks, mainPc, configMap, currTime, companyDirs, wg,
          task, visits, lost, query, result>>

NoTime == [day |-> 0, sec |-> -1]
NoQuery == [path |-> <<>>, root |-> <<>>, tz |-> 0]

-----------------------------------------------------------------------------
(* main *)

ZeroConfig ==
    [DefaultConfig |-> [Id |-> <<>>, Name |-> <<>>, Retention |-> <<>>],
     CompanyConfigs |-> <<>>]

\* readConfig after the file was read: json.Unmarshal's error is dropped, and
\* a file that does not parse leaves config as it was declared
readConfig(w) == IF w.cfgFile = "ok" THEN w.config ELSE ZeroConfig

RECURSIVE PutAll(_, _)
PutAll(m, entries) ==
    IF entries = <<>> THEN m
    ELSE LET e == Head(entries)
         IN  PutAll([k \in DOMAIN m \cup {e.Id} |-> IF k = e.Id THEN e ELSE m[k]],
                    Tail(entries))

convertConfigToMap(config) ==
    PutAll([k \in {sDefault} |-> config.DefaultConfig], config.CompanyConfigs)

\* configMap[name], or configMap["default"] when the key is absent
Lookup(m, name) == IF name \in DOMAIN m THEN m[name] ELSE m[sDefault]

\* ioutil.ReadDir(baseDir): the entries of baseDir, sorted by name
EntryOf(disk, path) == CHOOSE e \in disk : e.path = path

RECURSIVE EntriesOf(_, _, _)
EntriesOf(disk, dir, names) ==
    IF names = <<>> THEN <<>>
    ELSE <<[name |-> Head(names), dir |-> EntryOf(disk, Join(dir, Head(names))).dir]>>
         \o EntriesOf(disk, dir, Tail(names))

ReadDir(disk, dir) == EntriesOf(disk, dir, readDirNames(disk, dir))

\* lines 28-31 with the error of ioutil.ReadFile only logged: the run goes
\* on with the empty configuration
MainReadConfigIgnoringError ==
    /\ mainPc = "readConfig"
    /\ configMap' = convertConfigToMap(readConfig(world))
    /\ currTime' = now
    /\ mainPc' = "readDir"
    /\ UNCHANGED <<world, fs, now, ticks, companyDirs, wg, task, visits, lost,
                   query, result>>

\* lines 28-31: a config file that cannot be read is fatal (log.Fatal exits)
MainReadConfig ==
    /\ mainPc = "readConfig"
    /\ IF world.cfgFile = "unreadable"
       THEN /\ mainPc' = "fatal"
            /\ UNCHANGED <<configMap, currTime>>
       ELSE /\ configMap' = convertConfigToMap(readConfig(world))
            /\ currTime' = now
            /\ mainPc' = "readDir"
    /\ UNCHANGED <<world, fs, now, ticks, companyDirs, wg, task, visits, lost,
                   query, result>>

\* lines 32-36
MainReadDir ==
    /\ mainPc = "readDir"
    /\ IF world.baseOk
       THEN /\ companyDirs' = ReadDir(fs, world.base)
            /\ mainPc' = "loop"
       ELSE /\ mainPc' = "fatal"
            /\ UNCHANGED companyDirs
    /\ UNCHANGED <<world, fs, now, ticks, configMap, currTime, wg, task, visits,
                   lost, query, result>>

\* lines 38-48 with baseDir itself handed to every task in place of
\* filepath.Join(baseDir, entry.Name())
MainLoopSharedRoot ==
    /\ mainPc = "loop"
    /\ companyDirs # <<>>
    /\ LET entry == Head(companyDirs)
       IN  IF entry.dir
           THEN /\ wg' = wg + 1
                /\ task' = [n \in DOMAIN task \cup {entry.name} |->
                              IF n = entry.name
                              THEN [pc |-> "start",
                                    fileName |-> world.base,
                                    config |-> Lookup(configMap, entry.name),
                                    currTime |-> currTime,
                                    deleteTime |-> NoTime,
                                    baseLen |-> 0,
                                    todo |-> <<>>]
                              ELSE task[n]]
                /\ visits' = [n \in DOMAIN visits \cup {entry.name} |->
                                IF n = entry.name THEN <<>> ELSE visits[n]]
           ELSE UNCHANGED <<wg, task, visits>>
    /\ companyDirs' = Tail(companyDirs)
    /\ UNCHANGED <<world, fs, now, ticks, mainPc, configMap, currTime, lost,
                   query, result>>

\* lines 38-48, one iteration
MainLoop ==
    /\ mainPc = "loop"
    /\ companyDirs # <<>>
    /\ LET entry == Head(companyDirs)
       IN  IF entry.dir
           THEN /\ wg' = wg + 1
                /\ task' = [n \in DOMAIN task \cup {entry.name} |->
                              IF n = entry.name
                              THEN [pc |-> "start",
                                    fileName |-> Join(world.base, entry.name),
                                    config |-> Lookup(configMap, entry.name),
                                    currTime |-> currTime,
                                    deleteTime |-> NoTime,
                                    baseLen |-> 0,
                                    todo |-> <<>>]
                              ELSE task[n]]
                /\ visits' = [n \in DOMAIN visits \cup {entry.name} |->
                                IF n = entry.name THEN <<>> ELSE visits[n]]
           ELSE UNCHANGED <<wg, task, visits>>
    /\ companyDirs' = Tail(companyDirs)
    /\ UNCHANGED <<world, fs, now, ticks, mainPc, configMap, currTime, lost,
                   query, result>>

\* line 49 without the wait: main returns at the end of its loop
MainReturnsWithoutWait ==
    /\ mainPc = "loop"
    /\ companyDirs = <<>>
    /\ mainPc' = "done"
    /\ UNCHANGED <<world, fs, now, ticks, configMap, currTime, companyDirs, wg,
                   task, visits, lost, query, result>>

\* line 49: wg.Wait() returns when the counter is zero
MainWait ==
    /\ mainPc = "loop"
    /\ companyDirs = <<>>
    /\ wg = 0
    /\ mainPc' = "done"
    /\ UNCHANGED <<world, fs, now, ticks, configMap, currTime, companyDirs, wg,
                   task, visits, lost, query, result>>

-----------------------------------------------------------------------------
(* pruneSingleCompanyDir *)

\* Time.AddDate(0, 0, days) of a time in UTC: UTC has no offset changes, so
\* the calendar day moves and the time of day stays
AddDate(t, days) == [day |-> t.day + days, sec |-> t.sec]

\* line 59
DeleteTimeOf(curr, retentionDays) == AddDate(curr, (-1) * retentionDays)

\* line 60
BaseLenOf(fileName) == Len(Split(fileName))

\* line 74 with "not after" in place of "before"
ShouldRemoveNotAfter(compareDate, deleteTime) == ~Before(deleteTime, compareDate)

\* line 74
ShouldRemove(compareDate, deleteTime) == Before(compareDate, deleteTime)

\* the callback without the test of line 69: a file is dated and compared
\* like a directory
walkFnWithoutIsDirTest(path, isDir, err, baseLen, deleteTime, nowT, off) ==
    IF err THEN [kind |-> "error", compare |-> NoTime, remove |-> FALSE]
    ELSE LET compareDate == getCompareDate(Split(path), baseLen, nowT, off)
         IN  [kind |-> IF isDir THEN "dir" ELSE "file", compare |-> compareDate,
              remove |-> ShouldRemove(compareDate, deleteTime)]

\* the walk callback, lines 61-82, up to the call of os.RemoveAll: what kind
\* of visit it is, the date it compares and whether it asks for the removal.
\* It returns nil in every case.
walkFn(path, isDir, err, baseLen, deleteTime, nowT, off) ==
    IF err THEN [kind |-> "error", compare |-> NoTime, remove |-> FALSE]
    ELSE IF ~isDir THEN [kind |-> "file", compare |-> NoTime, remove |-> FALSE]
    ELSE LET compareDate == getCompareDate(Split(path), baseLen, nowT, off)
         IN  [kind |-> "dir", compare |-> compareDate,
              remove |-> ShouldRemove(compareDate, deleteTime)]

\* lines 66, 70 and 81 with the error handed back to Walk, which then stops
WalkOnAbortOnError(kind, children, rest) ==
    IF kind = "error" THEN <<>>
    ELSE IF kind = "dir" THEN children \o rest ELSE rest

\* lines 66, 70 and 81: the callback returns nil, so Walk goes on: into the
\* directory it listed, or with the rest when there is nothing to go into
WalkOn(kind, children, rest) ==
    IF kind = "dir" THEN children \o rest ELSE rest

SetTask(n, t) == [task EXCEPT ![n] = t]

\* lines 53-60: a retention that is not a number ends the task
TaskStart(n) ==
    /\ task[n].pc = "start"
    /\ LET r == ParseInt(task[n].config.Retention)
       IN  IF ~r.ok
           THEN /\ task' = SetTask(n, [task[n] EXCEPT !.pc = "done"])
                /\ wg' = wg - 1
           ELSE /\ task' = SetTask(n, [task[n] EXCEPT
                                !.pc = "walk",
                                !.deleteTime = DeleteTimeOf(task[n].currTime, r.val),
                                !.baseLen = BaseLenOf(task[n].fileName),
                                !.todo = <<task[n].fileName>>])
                /\ UNCHANGED wg
    /\ UNCHANGED <<world, fs, now, ticks, mainPc, configMap, currTime, companyDirs,
                   visits, lost, query, result>>

RECURSIVE JoinEach(_, _)
JoinEach(dir, names) ==
    IF names = <<>> THEN <<>>
    ELSE <<Join(dir, Head(names))>> \o JoinEach(dir, Tail(names))

\* One step of filepath.Walk(fileName, walkFn): the next path is lstat-ed; a
\* directory is listed (readDirNames) and then handed to the callback, and
\* unless listing failed the walk goes on with the names it listed, whatever
\* the callback did to the directory.  todo holds the paths still to lstat,
\* in the order of the walk.  (Walk is modelled as the current standard
\* library has it: the directory is listed before the callback is called.)
\* An os.RemoveAll that fails is taken to have removed nothing.
WalkStep(n) ==
    /\ task[n].pc = "walk"
    /\ task[n].todo # <<>>
    /\ LET t == task[n]
           path == Head(t.todo)
           exists == \E e \in fs : e.path = path
           isDir == exists /\ EntryOf(fs, path).dir
           names == IF isDir THEN readDirNames(fs, path) ELSE <<>>
           err == ~exists \/ (isDir /\ path \in world.unreadable)
           v == walkFn(path, isDir, err, t.baseLen, t.deleteTime, now, world.tz)
           removed == v.remove /\ path \notin world.undeletable
           below == {e \in fs : IsUnder(e.path, path)}
       IN  /\ fs' = IF removed THEN RemoveAll(fs, path) ELSE fs
           /\ lost' = IF removed
                      THEN lost \cup
                           {[task |-> n, by |-> path, path |-> e.path, dir |-> e.dir,
                             compare |-> getCompareDate(Split(e.path), t.baseLen,
                                                        now, world.tz)] : e \in below}
                      ELSE lost
           /\ visits' = [visits EXCEPT ![n] =
                            Append(@, [path |-> path, kind |-> v.kind,
                                       compare |-> v.compare, remove |-> v.remove,
                                       removed |-> removed])]
           /\ task' = SetTask(n, [t EXCEPT !.todo =
                            WalkOn(v.kind, JoinEach(path, names), Tail(t.todo))])
    /\ UNCHANGED <<world, now, ticks, mainPc, configMap, currTime, companyDirs, wg,
                   query, result>>

\* lines 83-86 and the deferred wg.Done(): the callback never returns an
\* error, so Walk returns nil when nothing is left to visit
TaskReturn(n) ==
    /\ task[n].pc = "walk"
    /\ task[n].todo = <<>>
    /\ task' = SetTask(n, [task[n] EXCEPT !.pc = "done"])
    /\ wg' = wg - 1
    /\ UNCHANGED <<world, fs, now, ticks, mainPc, configMap, currTime, companyDirs,
                   visits, lost, query, result>>

\* the clock advances
Tick ==
    /\ mainPc \in {"readConfig", "readDir", "loop"}
    /\ ticks < MaxTicks
    /\ now' = Add(now, 1)
    /\ ticks' = ticks + 1
    /\ UNCHANGED <<world, fs, mainPc, configMap, currTime, companyDirs, wg, task,
                   visits, lost, query, result>>

-----------------------------------------------------------------------------
(* The sweep *)

Init ==
    /\ world \in Worlds
    /\ fs = world.disk
    /\ now = world.now
    /\ ticks = 0
    /\ mainPc = "readConfig"
    /\ configMap = <<>>
    /\ currTime = NoTime
    /\ companyDirs = <<>>
    /\ wg = 0
    /\ task = <<>>
    /\ visits = <<>>
    /\ lost = {}
    /\ query = NoQuery
    /\ result = NoTime

Next ==
    \/ MainReadConfig
    \/ MainReadDir
    \/ MainLoop
    \/ MainWait
    \/ \E n \in DOMAIN task : TaskStart(n)
    \/ \E n \in DOMAIN task : WalkStep(n)
    \/ \E n \in DOMAIN task : TaskReturn(n)
    \/ Tick

Spec == Init /\ [][Next]_vars

\* Some goroutine can take its next step: the guards of the actions of Next
Runnable ==
    \/ mainPc \in {"readConfig", "readDir"}
    \/ mainPc = "loop" /\ (companyDirs # <<>> \/ wg = 0)
    \/ \E n \in DOMAIN task : task[n].pc # "done"
    \/ mainPc \in {"readConfig", "readDir", "loop"} /\ ticks < MaxTicks

\* The Go scheduler runs every goroutine that can run: main and each task
\* take their next step sooner or later.  This is WF_vars(Next) with the
\* enabling condition of Next written out as Runnable
FairSpec == Spec /\ ([]<>(~Runnable) \/ []<><<TRUE>>_vars)

-----------------------------------------------------------------------------
(* getCompareDate on its own: one call, its arguments drawn from the paths *)
(* of a company tree of every depth *)

s00 == <<"0", "0">>
s01 == <<"0", "1">>
s23 == <<"2", "3">>
s28 == <<"2", "8">>
s59 == <<"5", "9">>

QYears == {s2023, s2024, sAbc}
QMonths == {s01, s02, s12, sAbc}
QDays == {s01, s14, s28, sAbc}
QHours == {s00, s23, sAbc}
QMinutes == {s00, s30, s59, sAbc}

\* <year>, <year>/<month>, ... <year>/<month>/<day>/<hour>/<minute>
QDated ==
    {<<y>> : y \in QYears}
    \cup {<<y, m>> : y \in QYears, m \in QMonths}
    \cup {<<y, m, d>> : y \in QYears, m \in QMonths, d \in QDays}
    \cup {<<y, m, d, h>> : y \in QYears, m \in QMonths, d \in QDays, h \in QHours}
    \cup {<<y, m, d, h, mi>> : y \in QYears, m \in QMonths, d \in QDays,
                               h \in QHours, mi \in QMinutes}

\* the same below one more directory, and the company root itself
QSegs == QDated \cup {<<sDev>> \o q : q \in QDated} \cup {<<>>, <<sDev>>}

QZones == {0, SecondsPerHour, (-5) * SecondsPerHour}

QRoot == Join(AbsData, sAcme)

Queries == {[path |-> JoinAll(QRoot, q), root |-> QRoot, tz |-> z] :
                q \in QSegs, z \in QZones}

InferInit ==
    /\ world = World(AbsData, TRUE, 0, NowA, "ok", {}, {}, {})
    /\ fs = {}
    /\ now = NowA
    /\ ticks = 0
    /\ mainPc = "off"
    /\ configMap = <<>>
    /\ currTime = NoTime
    /\ companyDirs = <<>>
    /\ wg = 0
    /\ task = <<>>
    /\ visits = <<>>
    /\ lost = {}
    /\ query \in Queries
    /\ result = NoTime

\* lines 60 and 72: baseLen from the company root, then getCompareDate
Infer ==
    /\ mainPc = "off"
    /\ result = NoTime
    /\ result' = getCompareDate(Split(query.path), BaseLenOf(query.root), now, query.tz)
    /\ UNCHANGED <<world, fs, now, ticks, mainPc, configMap, currTime, companyDirs,
                   wg, task, visits, lost, query>>

InferNext == Infer

SpecInfer == InferInit /\ [][InferNext]_vars

-----------------------------------------------------------------------------
(* What the specification says a dated path stands for *)

\* the segments of path below root
RelSegs(path, root) ==
    LET a == Split(path)
    IN  SubSeq(a, Len(Split(root)) + 1, Len(a))

IsNum(seg) == ParseInt(seg).ok
IntOf(seg) == ParseInt(seg).val

DaysIn(y, m) ==
    IF m = 2 THEN (IF IsLeap(y) THEN 29 ELSE 28)
    ELSE IF m \in {4, 6, 9, 11} THEN 30 ELSE 31

\* segs is a prefix of year, month, day, hour, minute with every value in range
ValidDate(segs) ==
    /\ Len(segs) \in 1..5
    /\ \A k \in 1..Len(segs) : IsNum(segs[k])
    /\ Len(segs) >= 2 => IntOf(segs[2]) \in 1..12
    /\ Len(segs) >= 3 => IntOf(segs[3]) \in 1..DaysIn(IntOf(segs[1]), IntOf(segs[2]))
    /\ Len(segs) >= 4 => IntOf(segs[4]) \in 0..23
    /\ Len(segs) >= 5 => IntOf(segs[5]) \in 0..59

\* the first instant after the interval a valid prefix names, in the zone off
IntervalEnd(segs, off) ==
    LET y == IntOf(segs[1])
        m == IF Len(segs) >= 2 THEN IntOf(segs[2]) ELSE 1
        d == IF Len(segs) >= 3 THEN IntOf(segs[3]) ELSE 1
        h == IF Len(segs) >= 4 THEN IntOf(segs[4]) ELSE 0
        mi == IF Len(segs) >= 5 THEN IntOf(segs[5]) ELSE 0
    IN  CASE Len(segs) = 1 -> Date(y + 1, 1, 1, 0, 0, 0, off)
          [] Len(segs) = 2 -> Date(y, m + 1, 1, 0, 0, 0, off)
          [] Len(segs) = 3 -> Date(y, m, d + 1, 0, 0, 0, off)
          [] Len(segs) = 4 -> Date(y, m, d, h + 1, 0, 0, off)
          [] Len(segs) = 5 -> Date(y, m, d, h, mi + 1, 0, off)

\* the first instant of that interval
IntervalStart(segs, off) ==
    LET y == IntOf(segs[1])
        m == IF Len(segs) >= 2 THEN IntOf(segs[2]) ELSE 1
        d == IF Len(segs) >= 3 THEN IntOf(segs[3]) ELSE 1
        h == IF Len(segs) >= 4 THEN IntOf(segs[4]) ELSE 0
        mi == IF Len(segs) >= 5 THEN IntOf(segs[5]) ELSE 0
    IN  Date(y, m, d, h, mi, 0, off)

\* the last instant of the interval: one second before the next one starts
Boundary(segs, off) == Add(IntervalEnd(segs, off), -1)

QuerySegs == RelSegs(query.path, query.root)
Answered == mainPc = "off" /\ result # NoTime

Visit(n, i) == visits[n][i]
VisitIdx(n) == 1..Len(visits[n])

-----------------------------------------------------------------------------
(* Claims *)

\* C1: for every directory the walk callback visits without a read error,
\* the callback asks for the recursive removal if and only if the date
\* getCompareDate gives for the path is strictly before the task's delete
\* time; a directory whose date equals the delete time is kept.
C1_RemoveIffStrictlyBefore ==
    \A n \in DOMAIN visits : \A i \in VisitIdx(n) :
        LET v == Visit(n, i)
            pathArray == Split(v.path)
        IN  v.kind = "dir" =>
              /\ v.remove <=> Before(v.compare, task[n].deleteTime)
              /\ v.compare = task[n].deleteTime => ~v.remove
              /\ Len(pathArray) >= task[n].baseLen + 2 =>
                    v.compare = getCompareDate(pathArray, task[n].baseLen, now, world.tz)
              /\ Len(pathArray) < task[n].baseLen + 2 =>
                    /\ ~Before(v.compare, task[n].currTime)
                    /\ ~Before(now, v.compare)

\* C1 witness: one task has visited a directory whose date is exactly its
\* delete time and kept it, and has asked for the removal of another
C1_Witness ==
    \E n \in DOMAIN visits : \E i, j \in VisitIdx(n) :
        /\ Visit(n, i).kind = "dir"
        /\ Visit(n, i).compare = task[n].deleteTime
        /\ ~Visit(n, i).remove
        /\ Visit(n, j).kind = "dir"
        /\ Visit(n, j).remove

\* the segments of path that getCompareDate reads as year, month, ...
CodeSegs(path, baseLen) ==
    LET a == Split(path)
    IN  SubSeq(a, baseLen + 2, Len(a))

\* C2: a dated directory whose own inferred date is on or after the delete
\* time is never taken off the disk by the removal of a directory above it:
\* whatever valid dated directory goes with a removed directory has a date
\* strictly before the delete time.
C2_KeptDirectoryNeverLost ==
    \A l \in lost :
        (l.dir /\ ValidDate(CodeSegs(l.path, task[l.task].baseLen)))
            => Before(l.compare, task[l.task].deleteTime)

\* C3: for a path with only a year segment, getCompareDate is one second
\* before January 1 of year + 1, 00:00:00 UTC.
C3_YearOnly ==
    (Answered /\ Len(QuerySegs) = 1 /\ ValidDate(QuerySegs))
        => result = Boundary(QuerySegs, 0)

\* C4: for a path with exactly year and month (month in 1..12), getCompareDate
\* is one second before 00:00:00 of the first day of the following month (in
\* UTC or in the local zone).
C4_YearMonth ==
    (Answered /\ Len(QuerySegs) = 2 /\ ValidDate(QuerySegs))
        => result \in {Boundary(QuerySegs, 0), Boundary(QuerySegs, query.tz)}

\* C5: for a path with exactly year, month and day, getCompareDate is
\* 23:59:59 UTC of that day, whatever the offset of the local zone.
C5_YearMonthDayUTC ==
    (Answered /\ Len(QuerySegs) = 3 /\ ValidDate(QuerySegs))
        => result = Boundary(QuerySegs, 0)

\* C6: for a path with year, month, day, hour and minute, getCompareDate is
\* second 59 of the named minute (in UTC or in the local zone).
C6_FullPath ==
    (Answered /\ Len(QuerySegs) = 5 /\ ValidDate(QuerySegs))
        => result \in {Boundary(QuerySegs, 0), Boundary(QuerySegs, query.tz)}

\* C7: getCompareDate is monotone in path precision: with a valid child
\* segment added to a dated path p, the date is never later than the date of
\* p and never before the start of the interval p names.
C7_MonotoneInPrecision ==
    (Answered /\ Len(QuerySegs) >= 2 /\ ValidDate(QuerySegs))
        => LET parent == SubSeq(QuerySegs, 1, Len(QuerySegs) - 1)
               ofParent == getCompareDate(Split(JoinAll(query.root, parent)),
                                          BaseLenOf(query.root), now, query.tz)
           IN  /\ ~Before(ofParent, result)
               /\ \/ ~Before(result, IntervalStart(parent, query.tz))
                  \/ ~Before(result, IntervalStart(parent, 0))

\* C8: the directory directly below the company root is the year directory:
\* it gets the boundary of its year and is removed when that boundary is
\* before the delete time.
C8_YearDirectlyBelowRoot ==
    \A n \in DOMAIN visits : \A i \in VisitIdx(n) :
        LET v == Visit(n, i)
            segs == RelSegs(v.path, task[n].fileName)
        IN  (v.kind = "dir" /\ Len(segs) = 1 /\ ValidDate(segs))
              => /\ v.compare \in {Boundary(segs, 0), Boundary(segs, world.tz)}
                 /\ Before(Boundary(segs, world.tz), task[n].deleteTime) => v.remove

\* C9: once the walker has removed a directory, the callback is not called
\* again for it nor for any path below it, not even with an error.
C9_DeletedIsTerminal ==
    \A n \in DOMAIN visits : \A i, j \in VisitIdx(n) :
        (i < j /\ Visit(n, i).removed)
            => /\ Visit(n, j).path # Visit(n, i).path
               /\ ~IsUnder(Visit(n, j).path, Visit(n, i).path)

\* well-formed names a date segment may have
WellFormed == {s2023, s2024, s01, s02, s12, s14, s28, s00, s23, s30, s59}

\* C10: a date segment that does not parse never makes the date earlier than
\* a well-formed value of that segment would.
C10_MalformedNotEarlier ==
    Answered =>
        \A k \in 1..Len(QuerySegs) :
            ~IsNum(QuerySegs[k]) =>
                \A w \in WellFormed :
                    ~Before(result,
                            getCompareDate(
                                Split(JoinAll(query.root, [QuerySegs EXCEPT ![k] = w])),
                                BaseLenOf(query.root), now, query.tz))

\* C11: the company root itself is never removed, whatever retention the
\* task accepts: its date is the current instant, never before the delete time.
C11_RootNeverRemoved ==
    \A n \in DOMAIN visits : \A i \in VisitIdx(n) :
        (Visit(n, i).kind = "dir" /\ Visit(n, i).path = task[n].fileName)
            => /\ ~Visit(n, i).remove
               /\ ~Before(Visit(n, i).compare, task[n].deleteTime)

\* the text of an integer: an optional sign, then one or more digits
IsIntegerText(s) ==
    /\ Len(s) > 0
    /\ \A k \in 2..Len(s) : s[k] \in DigitChars
    /\ \/ s[1] \in DigitChars
       \/ s[1] \in {"+", "-"} /\ Len(s) > 1

\* what the disk held at or below path when the run began
TreeAt(path) == {e \in world.disk : e.path = path \/ IsUnder(e.path, path)}

\* C12: a company whose retention is not the text of an integer is not swept
\* at all (nothing of its tree is visited or removed), and when main is done
\* every other company directory has been swept to completion.
C12_BadRetentionSkipsOnlyThatCompany ==
    /\ \A n \in DOMAIN task :
          ~IsIntegerText(task[n].config.Retention)
             => /\ visits[n] = <<>>
                /\ task[n].pc \in {"start", "done"}
                /\ TreeAt(task[n].fileName) \subseteq fs
    /\ mainPc = "done" =>
          /\ \A e \in world.disk :
                (e.dir /\ Len(RelSegs(e.path, world.base)) = 1)
                    => RelSegs(e.path, world.base)[1] \in DOMAIN task
          /\ \A n \in DOMAIN task :
                IsIntegerText(task[n].config.Retention)
                    => /\ task[n].pc = "done"
                       /\ task[n].todo = <<>>
                       /\ Len(visits[n]) >= 1
                       /\ Visit(n, 1).path = task[n].fileName

\* C12 witness: a run is over in which one company had a bad retention and
\* another was swept
C12_Witness ==
    /\ mainPc = "done"
    /\ \E n, m \in DOMAIN task :
          /\ ~IsIntegerText(task[n].config.Retention)
          /\ world.cfgFile = "ok"
          /\ IsIntegerText(task[m].config.Retention)
          /\ Len(visits[m]) > 1

Running == {n \in DOMAIN task : task[n].pc # "done"}

\* C13: main does not return while a task it launched is still running; the
\* WaitGroup counter is the number of launched tasks that have not signalled,
\* so each task signals exactly once; and with every goroutine scheduled
\* fairly a run that got as far as launching its tasks ends with main returning.
C13_JoinBarrier ==
    /\ [](mainPc = "done" => Running = {})
    /\ [](wg = Cardinality(Running))
    /\ [](mainPc \in {"readDir", "loop"} /\ world.baseOk => <>(mainPc = "done"))

\* C13 witness: main has returned after a task that walked and a task that
\* gave up on its retention both signalled
C13_Witness ==
    /\ mainPc = "done"
    /\ \E n, m \in DOMAIN task :
          /\ Len(visits[n]) > 1
          /\ ~IsIntegerText(task[m].config.Retention)
          /\ task[m].pc = "done"

\* the paths task n handed to the callback so far
Visited(n) == {Visit(n, i).path : i \in VisitIdx(n)}

\* the paths at which the walk of task n met a read error, and those whose
\* directory it removed
Failed(n) == {Visit(n, i).path : i \in {j \in VisitIdx(n) : Visit(n, j).kind = "error"}}
Deleted(n) == {Visit(n, i).path : i \in {j \in VisitIdx(n) : Visit(n, j).removed}}

\* C14: no error at a path aborts a company's walk.  When a task that walked
\* has returned, every entry its subtree had at the start was handed to the
\* callback, except only entries beneath a path that failed to read or that
\* was removed as a whole; a read error or a failed removal anywhere,
\* in this task or in another, makes no difference.
C14_ErrorsDoNotAbortWalk ==
    \A n \in DOMAIN task :
        (task[n].pc = "done" /\ visits[n] # <<>>)
            => \A e \in TreeAt(task[n].fileName) :
                   \/ e.path \in Visited(n)
                   \/ \E p \in Failed(n) \cup Deleted(n) : IsUnder(e.path, p)

\* C14 witness: the run is over; one walk met an unreadable directory and
\* went on to a later sibling, another failed to remove a directory that
\* qualified and went on too
C14_Witness ==
    /\ mainPc = "done"
    /\ \E n \in DOMAIN task : \E i, j \in VisitIdx(n) :
          /\ i < j
          /\ Visit(n, i).kind = "error"
          /\ Visit(n, i).path \in world.unreadable
          /\ ~IsUnder(Visit(n, j).path, Visit(n, i).path)
    /\ \E m \in DOMAIN task : \E i, j \in VisitIdx(m) :
          /\ i < j
          /\ Visit(m, i).remove
          /\ ~Visit(m, i).removed
          /\ Visit(m, j).kind = "dir"

\* the files the disk had at the start
FilesAtStart == {e \in world.disk : ~e.dir}

\* C15: no removal is ever asked for a file.  The visit of a file asks for
\* nothing and removes nothing, and every file that is gone went with the
\* whole subtree of a directory above it that the walk removed.
C15_FilesOnlyGoWithTheirDirectory ==
    /\ \A n \in DOMAIN visits : \A i \in VisitIdx(n) :
           Visit(n, i).kind = "file" => ~Visit(n, i).remove /\ ~Visit(n, i).removed
    /\ \A e \in FilesAtStart :
           e \notin fs =>
               \E l \in lost :
                   /\ l.path = e.path
                   /\ ~l.dir
                   /\ IsUnder(e.path, l.by)
                   /\ EntryOf(world.disk, l.by).dir
                   /\ \E i \in VisitIdx(l.task) :
                          /\ Visit(l.task, i).path = l.by
                          /\ Visit(l.task, i).kind = "dir"
                          /\ Visit(l.task, i).removed

\* C15 witness: a file was visited and is still there, and another file is
\* gone with the directory that held it
C15_Witness ==
    /\ \E n \in DOMAIN visits : \E i \in VisitIdx(n) :
          /\ Visit(n, i).kind = "file"
          /\ [path |-> Visit(n, i).path, dir |-> FALSE] \in fs
    /\ \E e \in FilesAtStart : e \notin fs

\* nothing was launched, visited or removed
NothingDone == task = <<>> /\ visits = <<>> /\ wg = 0 /\ lost = {} /\ fs = world.disk

\* C16: when the base directory cannot be listed the run ends in log.Fatal
\* before the loop that launches the tasks, and so does a run whose
\* configuration file cannot be read, which does not even get to listing
\* the base directory: no task is launched, nothing is visited or removed,
\* and main never returns normally.  Once the flags are parsed a run ends
\* fatally for no other reason.
C16_FatalBeforeAnyTask ==
    /\ ~world.baseOk
           => NothingDone /\ mainPc \in {"readConfig", "readDir", "fatal"}
    /\ world.cfgFile = "unreadable"
           => NothingDone /\ mainPc \in {"readConfig", "fatal"}
    /\ mainPc = "fatal"
           => NothingDone /\ (~world.baseOk \/ world.cfgFile = "unreadable")

\* C16 witness: the run ended fatally at the base directory, whose company
\* directories are all still there
C16_Witness ==
    /\ mainPc = "fatal"
    /\ ~world.baseOk
    /\ world.cfgFile = "ok"
    /\ \E e \in fs : e.dir /\ IsUnder(e.path, world.base)

\* the policies of the configuration that list company name, in file order
ListedFor(name) ==
    LET cc == readConfig(world).CompanyConfigs
    IN  {cc[i] : i \in {j \in DOMAIN cc : cc[j].Id = name}}

\* C17: a company directory whose name no listed policy carries as its id
\* runs with the default policy of the configuration, a listed company runs
\* with a policy listed for it, and every task computes its cutoff from the
\* one instant main read before the loop, as that instant minus the
\* retention in days.
C17_PolicyResolution ==
    \A n \in DOMAIN task :
        /\ IF ListedFor(n) = {}
           THEN task[n].config = readConfig(world).DefaultConfig
           ELSE task[n].config \in ListedFor(n)
        /\ task[n].currTime = currTime
        /\ task[n].pc = "walk"
               => task[n].deleteTime =
                      [day |-> currTime.day - ParseInt(task[n].config.Retention).val,
                       sec |-> currTime.sec]

\* text that starts with a minus sign
IsNegativeText(s) == s # <<>> /\ s[1] = "-"

\* C18: a retention that reads as a negative number is handled like one
\* that does not parse: its company is not swept; so the cutoff of every
\* company that is swept is no later than the instant read at the start of
\* the run.
C18_NegativeRetentionRejected ==
    \A n \in DOMAIN task :
        /\ IsNegativeText(task[n].config.Retention)
               => task[n].pc \in {"start", "done"} /\ visits[n] = <<>>
        /\ task[n].pc = "walk" => ~Before(task[n].currTime, task[n].deleteTime)

\* the directory main hands to the task of company n
RootOf(n) == Join(world.base, n)

InRoot(path, n) == path = RootOf(n) \/ IsUnder(path, RootOf(n))

\* one whole walk from the paths in todo, run on its own
RECURSIVE WalkAlone(_, _, _, _)
WalkAlone(disk, todo, baseLen, deleteTime) ==
    IF todo = <<>> THEN disk
    ELSE LET path == Head(todo)
             exists == \E e \in disk : e.path = path
             isDir == exists /\ EntryOf(disk, path).dir
             names == IF isDir THEN readDirNames(disk, path) ELSE <<>>
             err == ~exists \/ (isDir /\ path \in world.unreadable)
             v == walkFn(path, isDir, err, baseLen, deleteTime, currTime, world.tz)
             removed == v.remove /\ path \notin world.undeletable
         IN  WalkAlone(IF removed THEN RemoveAll(disk, path) ELSE disk,
                       WalkOn(v.kind, JoinEach(path, names), Tail(todo)),
                       baseLen, deleteTime)

\* the disk after the companies were swept one after the other, in the
\* order of the listing, none starting before the one before it has ended
RECURSIVE SweptInTurn(_, _)
SweptInTurn(disk, entries) ==
    IF entries = <<>> THEN disk
    ELSE LET entry == Head(entries)
             r == ParseInt(Lookup(configMap, entry.name).Retention)
         IN  SweptInTurn(IF entry.dir /\ r.ok
                         THEN WalkAlone(disk, <<RootOf(entry.name)>>,
                                        BaseLenOf(RootOf(entry.name)),
                                        DeleteTimeOf(currTime, r.val))
                         ELSE disk,
                         Tail(entries))

\* C19: the tasks do not meet.  Every path a task visits, and everything it
\* removes, is its own company directory or lies below it; no path is
\* visited by two tasks; whatever is gone from the disk went by the task of
\* the company it belonged to; and when main returns the disk is what
\* sweeping the companies one after the other leaves, however the steps of
\* the tasks were interleaved.
C19_TasksIsolated ==
    /\ \A n \in DOMAIN visits : \A p \in Visited(n) : InRoot(p, n)
    /\ \A l \in lost : InRoot(l.by, l.task) /\ IsUnder(l.path, l.by)
    /\ \A n, m \in DOMAIN visits : n # m => Visited(n) \cap Visited(m) = {}
    /\ \A e \in world.disk :
           e \notin fs =>
               \E n \in DOMAIN task :
                   /\ InRoot(e.path, n)
                   /\ \/ e.path \in Deleted(n)
                      \/ \E l \in lost : l.task = n /\ l.path = e.path
    /\ mainPc = "done" => fs = SweptInTurn(world.disk, ReadDir(world.disk, world.base))

\* C19 witness: main has returned after two tasks walked their trees, one
\* of them removing a directory
C19_Witness ==
    /\ mainPc = "done"
    /\ \E n, m \in DOMAIN task :
          /\ n # m
          /\ Len(visits[n]) > 1
          /\ Len(visits[m]) > 1
          /\ Deleted(n) # {}

\* C20: a configuration file that can be read but not parsed aborts the run
\* before any task is launched: no task exists, nothing is visited or
\* removed, and main does not get to its loop or return normally.
C20_UnparseableConfigAborts ==
    world.cfgFile = "unparseable"
        => NothingDone /\ mainPc \notin {"loop", "done"}

=============================================================================
